---- MODULE Spec2Model ----
(***************************************************************************)
(* Declaration graphs built by the constructs of lib/repository.ts of      *)
(* cdktf-repository-manager, in its three revisions:                       *)
(*   R1  src/unnamed/part_000:213-369  one label, webhook always           *)
(*   R2  src/lib/repository.ts         R1 + addSecret + CODEOWNERS file    *)
(*   R3  src/unnamed/part_000:1-211    three labels, reviews, optional     *)
(*                                     webhook, setOldId                   *)
(* A construct's constructor appends its declarations to the enclosing     *)
(* graph in the order the `new` expressions run.                           *)
(***************************************************************************)
EXTENDS Naturals, Sequences, FiniteSets

VARIABLES rev, graph, construct, calls

vars == <<rev, graph, construct, calls>>

(***************************************************************************)
(* Bounds and input samples                                                *)
(***************************************************************************)
\* a name is a concatenation of at most MaxNameParts parts
MaxNameParts == 2
\* addSecret calls on one GithubRepository
MaxSecrets == 1

Revisions == {"R1", "R2", "R3"}

\* strings the code inspects character by character are sequences of characters
GoSuffix == <<"-", "g", "o">>
NameParts == {<<"x">>, GoSuffix}

RECURSIVE NamesOf(_)
NamesOf(n) ==
  IF n = 0 THEN {<<>>}
  ELSE LET shorter == NamesOf(n - 1)
       IN shorter \cup {s \o p : s \in shorter, p \in NameParts}

RepoNames == NamesOf(MaxNameParts) \ {<<>>}

Teams == {[id |-> "team-a"], [id |-> "team-b"]}
Providers == {"github.cdktf", "github.hashicorp"}
SecretNames == {"TOKEN", "NPM_TOKEN"}

(***************************************************************************)
(* JavaScript values                                                       *)
(***************************************************************************)
\* an optional property: <<>> when omitted or undefined, <<v>> when given
Undefined == <<>>
Some(v) == <<v>>

\* `const { x = d } = config`: the default applies to undefined only
Default(opt, d) == IF opt = Undefined THEN d ELSE opt[1]

\* `if (webhookUrl)`: undefined and the empty string are falsy
TruthyString(opt) == opt # Undefined /\ opt[1] # ""

\* `if (protectMain)` on the defaulted boolean
TruthyBool(b) == b = TRUE

\* name.endsWith(suffix)
EndsWith(s, suffix) ==
  /\ Len(s) >= Len(suffix)
  /\ SubSeq(s, Len(s) - Len(suffix) + 1, Len(s)) = suffix

(***************************************************************************)
(* Declarations.  A declaration is [type, scope, id, oldId, props]: scope  *)
(* is the path of the construct it was created in, id its construct id,    *)
(* props the properties object given to its constructor (a property the    *)
(* code does not pass is absent from the record).                          *)
(***************************************************************************)
Decl(type, scope, id, props) ==
  [type |-> type, scope |-> scope, id |-> id, oldId |-> FALSE, props |-> props]

\* setOldId(resource) of ./logical-id-override: pins the declaration's old
\* logical id and changes nothing else of it
setOldId(decl) == [decl EXCEPT !.oldId = TRUE]

\* `repository.name`: the name attribute of the repository handle, a
\* reference to that handle which resolves to the repository's name
NameOf(repository) ==
  [of |-> <<repository.type, repository.scope, repository.id>>,
   attr |-> "name",
   value |-> repository.props.name]

AutomergeLabel(this, repository, provider) ==
  Decl("IssueLabel", this, "automerge-label",
       [color |-> "5DC8DB", name |-> "automerge",
        repository |-> NameOf(repository), provider |-> provider])

NoAutoCloseLabel(this, repository, provider) ==
  Decl("IssueLabel", this, "no-auto-close-label",
       [color |-> "EE2222", name |-> "no-auto-close",
        repository |-> NameOf(repository), provider |-> provider])

AutoApproveLabel(this, repository, provider) ==
  Decl("IssueLabel", this, "auto-approve-label",
       [color |-> "8BF8BD", name |-> "auto-approve",
        repository |-> NameOf(repository), provider |-> provider])

\* variant: the rule is keyed by the handle's node id instead of its name
MainProtection_byNodeId(this, repository, protectMainChecks, provider) ==
  Decl("BranchProtection", this, "main-protection",
       [pattern |-> "main",
        repositoryId |-> [NameOf(repository) EXCEPT !.attr = "nodeId"],
        enforceAdmins |-> TRUE,
        allowsDeletions |-> FALSE,
        allowsForcePushes |-> FALSE,
        requiredStatusChecks |->
          <<[strict |-> TRUE, contexts |-> protectMainChecks]>>,
        provider |-> provider])

\* R1, R2: status checks only
MainProtection(this, repository, protectMainChecks, provider) ==
  Decl("BranchProtection", this, "main-protection",
       [pattern |-> "main",
        repositoryId |-> NameOf(repository),
        enforceAdmins |-> TRUE,
        allowsDeletions |-> FALSE,
        allowsForcePushes |-> FALSE,
        requiredStatusChecks |->
          <<[strict |-> TRUE, contexts |-> protectMainChecks]>>,
        provider |-> provider])

\* R3: one approving review and conversation resolution as well
MainProtectionWithReviews(this, repository, protectMainChecks, provider) ==
  Decl("BranchProtection", this, "main-protection",
       [pattern |-> "main",
        repositoryId |-> NameOf(repository),
        enforceAdmins |-> TRUE,
        allowsDeletions |-> FALSE,
        allowsForcePushes |-> FALSE,
        requiredPullRequestReviews |->
          <<[requiredApprovingReviewCount |-> 1,
             requireCodeOwnerReviews |-> FALSE,
             dismissStaleReviews |-> FALSE]>>,
        requireConversationResolution |-> TRUE,
        requiredStatusChecks |->
          <<[strict |-> TRUE, contexts |-> protectMainChecks]>>,
        provider |-> provider])

ManagingTeam(this, repository, team, provider) ==
  Decl("TeamRepository", this, "managing-team",
       [repository |-> NameOf(repository),
        teamId |-> team.id,
        permission |-> "admin",
        provider |-> provider])

\* webhookUrl is passed on as it was given (R1, R2: whatever its value)
SlackWebhook(this, repository, webhookUrl, provider) ==
  Decl("RepositoryWebhook", this, "slack-webhook",
       [repository |-> NameOf(repository),
        configuration |-> [url |-> webhookUrl, contentType |-> "json"],
        events |-> <<"issues">>,
        provider |-> provider])

CodeownersContent ==
  <<"# These owners will be the default owners for everything in ",
    "# the repo. Unless a later match takes precedence, ",
    "# they will be requested for review when someone opens a ",
    "# pull request.",
    "*       @cdktf/tf-cdk-team">>

\* the count is the deferred expression
\*   regex("-go", <repository.name>) == "-go" ? 1 : 0
\* kept unevaluated in the graph; no provider is passed
Codeowners(this, repository) ==
  Decl("RepositoryFile", this, "codeowners",
       [repository |-> NameOf(repository),
        count |-> [fn |-> "regex", pattern |-> GoSuffix,
                   subject |-> NameOf(repository),
                   equals |-> GoSuffix, then |-> 1, else |-> 0],
        file |-> ".github/CODEOWNERS",
        content |-> CodeownersContent])

(***************************************************************************)
(* RepositorySetup: the auxiliary bundle, per revision.  config carries    *)
(* team, webhookUrl, provider, protectMain, protectMainChecks and          *)
(* repository (the handle); the result is the sequence of declarations in  *)
(* the order their constructors run.                                       *)
(***************************************************************************)
\* destructuring defaults
protectMain_R1(config) == Default(config.protectMain, FALSE)
protectMainChecks_R1(config) == Default(config.protectMainChecks, <<"build">>)

protectMain_R2(config) == Default(config.protectMain, FALSE)
protectMainChecks_R2(config) == Default(config.protectMainChecks, <<"build">>)

\* variant: protection on unless switched off
protectMain_R3_defaultTrue(config) == Default(config.protectMain, TRUE)

protectMain_R3(config) == Default(config.protectMain, FALSE)

\* variant: R3 keeps the older default
protectMainChecks_R3_buildOnly(config) ==
  Default(config.protectMainChecks, <<"build">>)

protectMainChecks_R3(config) ==
  Default(config.protectMainChecks, <<"build", "license/cla">>)

\* variant: the team binding is created before the rule
RepositorySetup_R1_teamFirst(scope, name, config) ==
  LET this == Append(scope, name)
      protectMain == protectMain_R1(config)
      protectMainChecks == protectMainChecks_R1(config)
      provider == config.provider
      repository == config.repository
      team == config.team
      webhookUrl == config.webhookUrl
  IN <<AutomergeLabel(this, repository, provider)>>
     \o <<ManagingTeam(this, repository, team, provider)>>
     \o (IF TruthyBool(protectMain)
         THEN <<MainProtection(this, repository, protectMainChecks, provider)>>
         ELSE <<>>)
     \o <<SlackWebhook(this, repository, webhookUrl, provider)>>

RepositorySetup_R1(scope, name, config) ==
  LET this == Append(scope, name)
      protectMain == protectMain_R1(config)
      protectMainChecks == protectMainChecks_R1(config)
      provider == config.provider
      repository == config.repository
      team == config.team
      webhookUrl == config.webhookUrl
  IN <<AutomergeLabel(this, repository, provider)>>
     \o (IF TruthyBool(protectMain)
         THEN <<MainProtection(this, repository, protectMainChecks, provider)>>
         ELSE <<>>)
     \o <<ManagingTeam(this, repository, team, provider)>>
     \o <<SlackWebhook(this, repository, webhookUrl, provider)>>

RepositorySetup_R2(scope, name, config) ==
  LET this == Append(scope, name)
      protectMain == protectMain_R2(config)
      protectMainChecks == protectMainChecks_R2(config)
      provider == config.provider
      repository == config.repository
      team == config.team
      webhookUrl == config.webhookUrl
  IN <<AutomergeLabel(this, repository, provider)>>
     \o (IF TruthyBool(protectMain)
         THEN <<MainProtection(this, repository, protectMainChecks, provider)>>
         ELSE <<>>)
     \o <<ManagingTeam(this, repository, team, provider)>>
     \o <<SlackWebhook(this, repository, webhookUrl, provider)>>
     \o <<Codeowners(this, repository)>>

\* variant: `if (webhookUrl !== undefined)`
SlackWebhookIfSet_R3_whenDefined(this, repository, webhookUrl, provider) ==
  IF webhookUrl # Undefined
  THEN <<setOldId(SlackWebhook(this, repository, webhookUrl, provider))>>
  ELSE <<>>

\* R3: `if (webhookUrl) { setOldId(new RepositoryWebhook(...)) }`
SlackWebhookIfSet_R3(this, repository, webhookUrl, provider) ==
  IF TruthyString(webhookUrl)
  THEN <<setOldId(SlackWebhook(this, repository, webhookUrl, provider))>>
  ELSE <<>>

RepositorySetup_R3(scope, name, config) ==
  LET this == Append(scope, name)
      protectMain == protectMain_R3(config)
      protectMainChecks == protectMainChecks_R3(config)
      provider == config.provider
      repository == config.repository
      team == config.team
      webhookUrl == config.webhookUrl
  IN <<setOldId(AutomergeLabel(this, repository, provider))>>
     \o <<setOldId(NoAutoCloseLabel(this, repository, provider))>>
     \o <<AutoApproveLabel(this, repository, provider)>>
     \o (IF TruthyBool(protectMain)
         THEN <<setOldId(MainProtectionWithReviews(this, repository,
                                                   protectMainChecks, provider))>>
         ELSE <<>>)
     \o <<setOldId(ManagingTeam(this, repository, team, provider))>>
     \o SlackWebhookIfSet_R3(this, repository, webhookUrl, provider)

(***************************************************************************)
(* GithubRepository                                                        *)
(***************************************************************************)
\* variant: two topics swapped
defaultTopics_swapped ==
  <<"cdktf", "terraform", "terraform-cdk", "provider", "cdk",
    "pre-built-provider">>

defaultTopics ==
  <<"cdktf", "terraform", "terraform-cdk", "cdk", "provider",
    "pre-built-provider">>

defaultDescription ==
  "Repository management for prebuilt cdktf providers via cdktf"

\* `const { topics = GithubRepository.defaultTopics, ... } = config`
topicsOf(config) == Default(config.topics, defaultTopics)
descriptionOf(config) == Default(config.description, defaultDescription)

\* `{ ...config, repository: this.resource }`: every property of config, and
\* the handle
WithRepository(config, resource) ==
  [k \in DOMAIN config \cup {"repository"} |->
     IF k = "repository" THEN resource ELSE config[k]]

\* R1, R2: new Repository(this, "repo", {...})
Repository_R1(this, name, config) ==
  Decl("Repository", this, "repo",
       [name |-> name,
        description |-> descriptionOf(config),
        visibility |-> "public",
        homepageUrl |-> "https://cdk.tf",
        hasIssues |-> TRUE,
        hasWiki |-> FALSE,
        autoInit |-> TRUE,
        hasProjects |-> FALSE,
        deleteBranchOnMerge |-> TRUE,
        topics |-> topicsOf(config),
        provider |-> config.provider])

Repository_R3(this, name, config) ==
  Decl("Repository", this, "repo",
       [name |-> name,
        description |-> descriptionOf(config),
        archiveOnDestroy |-> TRUE,
        visibility |-> "public",
        homepageUrl |-> "https://cdk.tf",
        hasIssues |-> ~EndsWith(name, GoSuffix),
        hasWiki |-> FALSE,
        autoInit |-> TRUE,
        hasProjects |-> FALSE,
        deleteBranchOnMerge |-> TRUE,
        allowAutoMerge |-> TRUE,
        allowUpdateBranch |-> TRUE,
        squashMergeCommitMessage |-> "PR_BODY",
        squashMergeCommitTitle |-> "PR_TITLE",
        vulnerabilityAlerts |-> TRUE,
        topics |-> topicsOf(config),
        provider |-> config.provider])

\* a constructor's result: the object (self) and the declarations it made
GithubRepository_R1(scope, name, config) ==
  LET this == Append(scope, name)
      resource == Repository_R1(this, name, config)
  IN [self |-> [class |-> "GithubRepository", path |-> this,
                resource |-> resource],
      decls |-> <<resource>>
                \o RepositorySetup_R1(this, "repository-setup",
                                      WithRepository(config, resource))]

GithubRepository_R2(scope, name, config) ==
  LET this == Append(scope, name)
      resource == Repository_R1(this, name, config)
  IN [self |-> [class |-> "GithubRepository", path |-> this,
                resource |-> resource, provider |-> config.provider],
      decls |-> <<resource>>
                \o RepositorySetup_R2(this, "repository-setup",
                                      WithRepository(config, resource))]

GithubRepository_R3(scope, name, config) ==
  LET this == Append(scope, name)
      resource == setOldId(Repository_R3(this, name, config))
  IN [self |-> [class |-> "GithubRepository", path |-> this,
                resource |-> resource, provider |-> config.provider],
      decls |-> <<resource>>
                \o RepositorySetup_R3(this, "repository-setup",
                                      WithRepository(config, resource))]

(***************************************************************************)
(* GithubRepositoryFromExistingRepository                                  *)
(***************************************************************************)
DataRepository(this, config) ==
  Decl("DataGithubRepository", this, "repo",
       [name |-> config.repositoryName, provider |-> config.provider])

\* variant: only the properties the declared type picks are passed on
GithubRepositoryFromExistingRepository_R1_picked(scope, name, config) ==
  LET this == Append(scope, name)
      resource == DataRepository(this, config)
      picked == [config EXCEPT !.protectMain = Undefined,
                               !.protectMainChecks = Undefined]
  IN [self |-> [class |-> "GithubRepositoryFromExistingRepository",
                path |-> this, resource |-> resource],
      decls |-> <<resource>>
                \o RepositorySetup_R1(this, "repository-setup",
                                      WithRepository(picked, resource))]

GithubRepositoryFromExistingRepository_R1(scope, name, config) ==
  LET this == Append(scope, name)
      resource == DataRepository(this, config)
  IN [self |-> [class |-> "GithubRepositoryFromExistingRepository",
                path |-> this, resource |-> resource],
      decls |-> <<resource>>
                \o RepositorySetup_R1(this, "repository-setup",
                                      WithRepository(config, resource))]

GithubRepositoryFromExistingRepository_R2(scope, name, config) ==
  LET this == Append(scope, name)
      resource == DataRepository(this, config)
  IN [self |-> [class |-> "GithubRepositoryFromExistingRepository",
                path |-> this, resource |-> resource],
      decls |-> <<resource>>
                \o RepositorySetup_R2(this, "repository-setup",
                                      WithRepository(config, resource))]

GithubRepositoryFromExistingRepository_R3(scope, name, config) ==
  LET this == Append(scope, name)
      resource == DataRepository(this, config)
  IN [self |-> [class |-> "GithubRepositoryFromExistingRepository",
                path |-> this, resource |-> resource],
      decls |-> <<resource>>
                \o RepositorySetup_R3(this, "repository-setup",
                                      WithRepository(config, resource))]

(***************************************************************************)
(* addSecret.  SecretFromVariable is ./secrets: a secret whose value comes *)
(* from an external variable, bound by for(repository, provider) to a      *)
(* repository and a provider as one secret declaration.                    *)
(***************************************************************************)
SecretFromVariable(scope, name) == [path |-> Append(scope, name), name |-> name]

SecretFor(variable, repository, provider) ==
  Decl("ActionsSecret", variable.path, "secret",
       [secretName |-> variable.name,
        repository |-> NameOf(repository),
        provider |-> provider])

\* variant: the variable is made and never bound
addSecret_unbound(self, name) == <<>>

\* addSecret(name) on `self`: the declarations it adds
addSecret(self, name) ==
  LET variable == SecretFromVariable(self.path, name)
  IN <<SecretFor(variable, self.resource, self.provider)>>

(***************************************************************************)
(* The deferred count of the CODEOWNERS file, as the provisioning runtime  *)
(* evaluates it.  regex(pattern, string) returns the first match of the    *)
(* pattern anywhere in the string and raises an error when there is none;  *)
(* "-go" holds no metacharacter, so it matches itself.                     *)
(***************************************************************************)
Contains(s, sub) ==
  \E i \in 1..(Len(s) + 1 - Len(sub)) : SubSeq(s, i, i + Len(sub) - 1) = sub

EvalCount(count) ==
  IF ~Contains(count.subject.value, count.pattern)
  THEN [error |-> TRUE, instances |-> 0]
  ELSE [error |-> FALSE,
        instances |-> IF count.pattern = count.equals
                      THEN count.then ELSE count.else]

(***************************************************************************)
(* Inputs                                                                  *)
(***************************************************************************)
ProtectMainValues == {Undefined, Some(TRUE), Some(FALSE)}
ProtectMainChecksValues == {Undefined, Some(<<>>), Some(<<"test", "build">>)}
TopicsValues == {Undefined, Some(<<"cdktf", "aws">>)}
DescriptionValues == {Undefined, Some("Prebuilt AWS provider")}

\* webhookUrl: `string` in R1 and R2, `string | undefined` in R3
WebhookUrls(r) ==
  {Some(""), Some("https://hooks.example/T0")}
  \cup (IF r = "R3" THEN {Undefined} ELSE {})

RepositoryConfigs(r) ==
  [description : DescriptionValues,
   topics : TopicsValues,
   team : Teams,
   protectMain : ProtectMainValues,
   protectMainChecks : ProtectMainChecksValues,
   webhookUrl : WebhookUrls(r),
   provider : Providers]

\* R1, R2: Pick<RepositoryConfig, "team" | "webhookUrl" | "provider"> and
\* repositoryName, and whatever else the object carries (the spread passes it
\* on); R3: RepositoryConfig and repositoryName
ExistingConfigs(r) ==
  [description : IF r = "R3" THEN DescriptionValues ELSE {Undefined},
   topics : IF r = "R3" THEN TopicsValues ELSE {Undefined},
   team : Teams,
   protectMain : ProtectMainValues,
   protectMainChecks : ProtectMainChecksValues,
   webhookUrl : WebhookUrls(r),
   provider : Providers,
   repositoryName : RepoNames]

(***************************************************************************)
(* State machine.  rev: the revision in use.  graph: the declarations of   *)
(* the stack, in creation order.  construct: the object the caller holds   *)
(* ([class |-> "none"] before construction).  calls: the calls made so     *)
(* far, with their arguments.                                              *)
(***************************************************************************)
Init ==
  /\ rev \in Revisions
  /\ graph = <<>>
  /\ construct = [class |-> "none"]
  /\ calls = <<>>

NewGithubRepository ==
  /\ construct.class = "none"
  /\ \E name \in RepoNames, config \in RepositoryConfigs(rev) :
    /\ LET made == CASE rev = "R1" -> GithubRepository_R1(<<>>, name, config)
                     [] rev = "R2" -> GithubRepository_R2(<<>>, name, config)
                     [] rev = "R3" -> GithubRepository_R3(<<>>, name, config)
       IN /\ graph' = graph \o made.decls
          /\ construct' = made.self
    /\ calls' = Append(calls, [op |-> "GithubRepository", name |-> name,
                               config |-> config])
    /\ UNCHANGED rev

NewGithubRepositoryFromExistingRepository ==
  /\ construct.class = "none"
  /\ \E name \in RepoNames, config \in ExistingConfigs(rev) :
    /\ LET made ==
             CASE rev = "R1" ->
                    GithubRepositoryFromExistingRepository_R1(<<>>, name, config)
               [] rev = "R2" ->
                    GithubRepositoryFromExistingRepository_R2(<<>>, name, config)
               [] rev = "R3" ->
                    GithubRepositoryFromExistingRepository_R3(<<>>, name, config)
       IN /\ graph' = graph \o made.decls
          /\ construct' = made.self
    /\ calls' = Append(calls, [op |-> "GithubRepositoryFromExistingRepository",
                               name |-> name, config |-> config])
    /\ UNCHANGED rev

\* R2 and R3 only: R1's GithubRepository has no addSecret.  The name is the
\* construct id of the new SecretFromVariable, so it is one not yet used
\* under this GithubRepository.
AddSecret ==
  /\ rev \in {"R2", "R3"}
  /\ construct.class = "GithubRepository"
  /\ Len(calls) <= MaxSecrets
  /\ \E name \in SecretNames :
    /\ \A i \in 2..Len(calls) : calls[i].name # name
    /\ graph' = graph \o addSecret(construct, name)
    /\ calls' = Append(calls, [op |-> "addSecret", name |-> name])
    /\ UNCHANGED <<rev, construct>>

Next ==
  \/ NewGithubRepository
  \/ NewGithubRepositoryFromExistingRepository
  \/ AddSecret

Spec == Init /\ [][Next]_vars

(***************************************************************************)
(* What the properties speak of                                            *)
(***************************************************************************)
Built == construct.class # "none"

\* the configuration the constructor was called with
Config == calls[1].config

OfType(type) == SelectSeq(graph, LAMBDA d : d.type = type)

\* the declarations RepositorySetup made
SetupPath == Append(construct.path, "repository-setup")
Auxiliary == SelectSeq(graph, LAMBDA d : d.scope = SetupPath)

Ids(decls) == [i \in 1..Len(decls) |-> decls[i].id]

\* C1: a branch-protection declaration is in the graph iff config.protectMain
\* is true; then there is exactly one, on pattern "main", enforced on
\* admins, with deletions and force pushes disallowed.
C1_BranchProtectionIffProtectMain ==
  Built =>
    LET rules == OfType("BranchProtection")
    IN IF Config.protectMain = Some(TRUE)
       THEN /\ Len(rules) = 1
            /\ rules[1].props.pattern = "main"
            /\ rules[1].props.enforceAdmins = TRUE
            /\ rules[1].props.allowsDeletions = FALSE
            /\ rules[1].props.allowsForcePushes = FALSE
       ELSE Len(rules) = 0

C1_Witness ==
  /\ Built
  /\ Config.protectMain = Some(TRUE)
  /\ Len(OfType("BranchProtection")) = 1

\* C2: with protectMain true and no protectMainChecks, the one rule has one
\* required-status-checks entry, strict, whose contexts are the revision's
\* default: <<"build">> in R1 and R2, <<"build", "license/cla">> in R3.
C2_DefaultStatusChecks ==
  (Built /\ Config.protectMain = Some(TRUE)
         /\ Config.protectMainChecks = Undefined) =>
    LET rules == OfType("BranchProtection")
    IN /\ Len(rules) = 1
       /\ Len(rules[1].props.requiredStatusChecks) = 1
       /\ rules[1].props.requiredStatusChecks[1].strict = TRUE
       /\ rules[1].props.requiredStatusChecks[1].contexts
            = IF rev = "R3" THEN <<"build", "license/cla">> ELSE <<"build">>

C2_Witness ==
  /\ Built
  /\ rev = "R3"
  /\ Config.protectMain = Some(TRUE)
  /\ Config.protectMainChecks = Undefined
  /\ Len(OfType("BranchProtection")) = 1
  /\ OfType("BranchProtection")[1].props.requiredStatusChecks[1].contexts
       = <<"build", "license/cla">>

\* C3: in R3, no webhook declaration when webhookUrl is undefined or empty;
\* otherwise exactly one, posting JSON to webhookUrl, on "issues" only.
C3_WebhookOnlyWhenUrlSet ==
  (Built /\ rev = "R3") =>
    LET hooks == OfType("RepositoryWebhook")
    IN IF Config.webhookUrl = Undefined \/ Config.webhookUrl = Some("")
       THEN Len(hooks) = 0
       ELSE /\ Len(hooks) = 1
            /\ hooks[1].props.configuration.url = Config.webhookUrl
            /\ hooks[1].props.configuration.contentType = "json"
            /\ hooks[1].props.events = <<"issues">>

C3_Witness ==
  /\ Built
  /\ rev = "R3"
  /\ Config.webhookUrl = Some("https://hooks.example/T0")
  /\ Len(OfType("RepositoryWebhook")) = 1

\* C4: in R2, the graph holds the CODEOWNERS file declaration, with the fixed
\* content, and its count evaluates to 1 when the repository name ends in
\* "-go" and to 0 for every other name.  (A count whose evaluation fails is
\* read here as no file.)
C4_CodeownersIffNameEndsInGo ==
  (Built /\ rev = "R2") =>
    LET files == OfType("RepositoryFile")
    IN /\ Len(files) = 1
       /\ files[1].props.file = ".github/CODEOWNERS"
       /\ files[1].props.content = CodeownersContent
       /\ EvalCount(files[1].props.count).instances
            = IF EndsWith(construct.resource.props.name, GoSuffix)
              THEN 1 ELSE 0

\* C5: without topics the repository declaration carries the default list,
\* in order; with topics, the list supplied.
C5_TopicsDefault ==
  construct.class = "GithubRepository" =>
    /\ Len(OfType("Repository")) = 1
    /\ OfType("Repository")[1].props.topics
         = IF Config.topics = Undefined
           THEN <<"cdktf", "terraform", "terraform-cdk", "cdk", "provider",
                  "pre-built-provider">>
           ELSE Config.topics[1]

C5_Witness ==
  /\ construct.class = "GithubRepository"
  /\ Config.topics = Undefined
  /\ OfType("Repository")[1].props.topics[6] = "pre-built-provider"

RepositoryRef(d) ==
  IF d.type = "BranchProtection" THEN d.props.repositoryId
  ELSE d.props.repository

\* the name attribute of the construct's one repository handle, written out
ParentName ==
  [of |-> <<(IF construct.class = "GithubRepository"
             THEN "Repository" ELSE "DataGithubRepository"),
            construct.path, "repo">>,
   attr |-> "name",
   value |-> IF construct.class = "GithubRepository"
             THEN calls[1].name ELSE Config.repositoryName]

AuxiliaryTypes ==
  {"IssueLabel", "BranchProtection", "TeamRepository", "RepositoryWebhook",
   "RepositoryFile"}

\* C7: the graph holds one repository handle, and every auxiliary
\* declaration references that handle's name and nothing else.
C7_AuxiliaryReferencesParent ==
  Built =>
    /\ Len(OfType("Repository")) + Len(OfType("DataGithubRepository")) = 1
    /\ graph[1] = construct.resource
    /\ \A i \in 1..Len(graph) :
         graph[i].type \in AuxiliaryTypes =>
           /\ graph[i].scope = SetupPath
           /\ RepositoryRef(graph[i]) = ParentName
           /\ (graph[i].type = "RepositoryFile" =>
                 graph[i].props.count.subject = ParentName)

C7_Witness ==
  /\ construct.class = "GithubRepositoryFromExistingRepository"
  /\ calls[1].name # Config.repositoryName
  /\ Len(OfType("BranchProtection")) = 1
  /\ OfType("BranchProtection")[1].props.repositoryId.value
       = Config.repositoryName

\* C8: every auxiliary declaration is given the provider of the config.
C8_AuxiliaryBoundToProvider ==
  Built =>
    \A i \in 1..Len(Auxiliary) :
      /\ "provider" \in DOMAIN Auxiliary[i].props
      /\ Auxiliary[i].props.provider = Config.provider

\* the order RepositorySetup creates its declarations in
SetupOrder ==
  <<"automerge-label", "no-auto-close-label", "auto-approve-label",
    "main-protection", "managing-team", "slack-webhook", "codeowners">>

\* C9: the auxiliary declarations come in the fixed order, whichever of the
\* optional ones are there: the label(s), the rule iff protectMain is true,
\* the team binding (always, once, "admin" for team.id), the webhook, and
\* in R2 the CODEOWNERS file.
C9_FixedOrder ==
  Built =>
    LET ids == Ids(Auxiliary)
        present == {ids[i] : i \in 1..Len(ids)}
        teams == OfType("TeamRepository")
    IN /\ ids = SelectSeq(SetupOrder, LAMBDA id : id \in present)
       /\ "automerge-label" \in present
       /\ ("no-auto-close-label" \in present) <=> (rev = "R3")
       /\ ("auto-approve-label" \in present) <=> (rev = "R3")
       /\ ("main-protection" \in present)
            <=> (Config.protectMain = Some(TRUE))
       /\ "managing-team" \in present
       /\ ("codeowners" \in present) <=> (rev = "R2")
       /\ Len(teams) = 1
       /\ teams[1].props.permission = "admin"
       /\ teams[1].props.teamId = Config.team.id

C9_Witness ==
  /\ Built
  /\ rev = "R2"
  /\ Config.protectMain = Some(TRUE)
  /\ Ids(Auxiliary) = <<"automerge-label", "main-protection", "managing-team",
                        "slack-webhook", "codeowners">>

\* a declaration with its references to the repository handle erased
WithoutHandle(d) ==
  [d EXCEPT !.props =
     [k \in DOMAIN d.props |->
        IF k \in {"repository", "repositoryId"} THEN "handle"
        ELSE IF k = "count" THEN [d.props[k] EXCEPT !.subject = "handle"]
        ELSE d.props[k]]]

\* the bundle GithubRepository makes for the same construct name and config
CreatedBundle(name, config) ==
  LET made == CASE rev = "R1" -> GithubRepository_R1(<<>>, name, config)
                [] rev = "R2" -> GithubRepository_R2(<<>>, name, config)
                [] rev = "R3" -> GithubRepository_R3(<<>>, name, config)
  IN Tail(made.decls)

\* C10: GithubRepositoryFromExistingRepository declares no repository, only
\* one data lookup by config.repositoryName, and its auxiliary bundle is the
\* one GithubRepository makes for that config, up to the handle referenced.
C10_ExistingBundleSameAsCreated ==
  construct.class = "GithubRepositoryFromExistingRepository" =>
    LET config == [k \in DOMAIN Config \ {"repositoryName"} |-> Config[k]]
        created == CreatedBundle(calls[1].name, config)
    IN /\ Len(OfType("Repository")) = 0
       /\ Len(OfType("DataGithubRepository")) = 1
       /\ graph[1].type = "DataGithubRepository"
       /\ graph[1].props.name = Config.repositoryName
       /\ Len(graph) = Len(created) + 1
       /\ \A i \in 1..Len(created) :
            WithoutHandle(graph[i + 1]) = WithoutHandle(created[i])

C10_Witness ==
  /\ construct.class = "GithubRepositoryFromExistingRepository"
  /\ rev = "R1"
  /\ Config.protectMain = Some(TRUE)
  /\ Config.protectMainChecks = Some(<<"test", "build">>)
  /\ Len(OfType("BranchProtection")) = 1
  /\ Len(graph) = 5

====
